---- MODULE Spec2Model ----
(***************************************************************************)
(* spoc-parser: parser (package parser) and printer (package printer) of   *)
(* the Netspoc policy language, and the pipeline of main():                *)
(*     list := parser.ParseFile(bytes, path); printer.File(list, bytes)    *)
(*                                                                         *)
(* Text (source bytes, token literals, names, printer output) is a         *)
(* sequence of one-character strings, so that strings.Index, slicing,      *)
(* len() and string concatenation are computed as the code computes them.  *)
(* Positions are 0-based byte offsets as in Go; src[k] of the code is      *)
(* src[k+1] here.                                                          *)
(***************************************************************************)
EXTENDS Integers, Sequences, FiniteSets, TLC

\* ------------------------------------------------------------------------
\* Bounds of the model.

\* Largest number of tokens in the body of a group of TokenInputs.
MaxToks == 5
\* Largest number of characters of a toplevel name of TopInputs.
MaxName == 3
\* Largest number of characters of an interface name of IntfInputs.
MaxIntfName == 7
\* Largest number of comments put into a source text of LayoutInputs.
MaxComments == 2
\* Largest number of members of the nested list of an automatic group of
\* PrintGroups.
MaxMembers == 2
\* Largest nesting depth of automatic groups and intersections in the user
\* list of a service of PrintServices.
MaxDepth == 2

\* ------------------------------------------------------------------------
\* Text helpers

Nil == [kind |-> "nil"]

\* s[from:to] of Go, 0-based, 'to' exclusive.
Slice(s, from, to) == SubSeq(s, from + 1, to)

\* s[from:] of Go.
SliceFrom(s, from) == SubSeq(s, from + 1, Len(s))

\* strings.IndexAny(s, chars): 0-based index of the first character of s
\* that is in the set chars, -1 if there is none.
IndexAny(s, chars) ==
  IF \E i \in 1..Len(s) : s[i] \in chars
  THEN (CHOOSE i \in 1..Len(s) :
          s[i] \in chars /\ \A j \in 1..(i-1) : s[j] \notin chars) - 1
  ELSE -1

\* strings.Index(s, c) for a one-character c.
Index(s, c) == IndexAny(s, {c})

\* strings.HasPrefix(s, pre)
HasPrefix(s, pre) == Len(s) >= Len(pre) /\ SubSeq(s, 1, Len(pre)) = pre

\* strings.Split(s, "."): the parts of s between the separators.
RECURSIVE Split(_, _)
Split(s, c) ==
  LET i == Index(s, c)
  IN IF i = -1 THEN <<s>>
     ELSE <<Slice(s, 0, i)>> \o Split(SliceFrom(s, i + 1), c)

\* n spaces
RECURSIVE Spaces(_)
Spaces(n) == IF n <= 0 THEN <<>> ELSE <<" ">> \o Spaces(n - 1)

\* String literals of the code.
W == [
  group       |-> <<"g","r","o","u","p">>,
  host        |-> <<"h","o","s","t">>,
  network     |-> <<"n","e","t","w","o","r","k">>,
  interface   |-> <<"i","n","t","e","r","f","a","c","e">>,
  any         |-> <<"a","n","y">>,
  area        |-> <<"a","r","e","a">>,
  router      |-> <<"r","o","u","t","e","r">>,
  user        |-> <<"u","s","e","r">>,
  auto        |-> <<"a","u","t","o">>,
  all         |-> <<"a","l","l">>,
  ip          |-> <<"i","p">>,
  managed     |-> <<"m","a","n","a","g","e","d">>,
  description |-> <<"d","e","s","c","r","i","p","t","i","o","n">>,
  id          |-> <<"i","d",":">>,
  foreach     |-> <<"f","o","r","e","a","c","h">>,
  permit      |-> <<"p","e","r","m","i","t">>,
  deny        |-> <<"d","e","n","y"," "," ">>,
  src         |-> <<"s","r","c">>,
  dst         |-> <<"d","s","t">>,
  prt         |-> <<"p","r","t">>
]

\* ------------------------------------------------------------------------
\* Scanner (package scanner; its source is not part of src/).
\* It turns the source bytes into (position, literal) pairs, skips
\* whitespace and comments, and has a "read to end of line" mode.

Whitespace == {" ", "\t", "\n", "\r"}

\* One-character tokens.
Punct == {",", ";", "=", "&", "!", "[", "]", "{", "}"}

isTokenChar(ch) == ch \notin Whitespace /\ ch \notin Punct /\ ch # "#"

\* Offset of the end of the line that holds offset off (the offset of its
\* "\n", or len(src)).
RECURSIVE EOL(_, _)
EOL(src, off) ==
  IF off >= Len(src) \/ src[off + 1] = "\n" THEN off ELSE EOL(src, off + 1)

\* Skip whitespace and comments up to the start of the next token.
RECURSIVE skipWhitespace(_, _)
skipWhitespace(src, off) ==
  IF off >= Len(src) THEN off
  ELSE IF src[off + 1] \in Whitespace THEN skipWhitespace(src, off + 1)
  ELSE IF src[off + 1] = "#" THEN skipWhitespace(src, EOL(src, off))
  ELSE off

\* Offset behind the run of token characters that starts at off.
RECURSIVE tokenEnd(_, _)
tokenEnd(src, off) ==
  IF off < Len(src) /\ isTokenChar(src[off + 1])
  THEN tokenEnd(src, off + 1) ELSE off

\* Scanner.Token(): position and literal of the next token, "" at the end
\* of the input.  A run of token characters may end with '[' (as in
\* "host:[", "interface:r1.[" and ".["); every other character is a token
\* of its own.  off is the scanner's read offset behind the token.
Token(src, off0) ==
  LET pos == skipWhitespace(src, off0)
      e   == tokenEnd(src, pos)
      off == IF pos >= Len(src) THEN pos
             ELSE IF e > pos
                  THEN (IF e < Len(src) /\ src[e + 1] = "[" THEN e + 1 ELSE e)
                  ELSE pos + 1
  IN [pos |-> pos, tok |-> Slice(src, pos, off), off |-> off]

\* Scanner.ToEOL(): the text from the read offset to the end of the line,
\* verbatim.
ToEOL(src, off0) ==
  LET e == EOL(src, off0)
  IN [pos |-> off0, tok |-> Slice(src, off0, e), off |-> e]

\* ------------------------------------------------------------------------
\* Parser (package parser)

NoPos == -1

\* The parser structure: the scanner (its source and read offset), the
\* one token look-ahead (pos, tok), and the record of what the run did:
\* end is the offset behind the token consumed last, err the syntax errors
\* raised, dead whether the run was aborted, ntok the number of tokens
\* read from the scanner, nnode the number of AST nodes built, attok and
\* atnode the values of ntok and nnode when the first error was raised.
NewParser(src) ==
  [src |-> src, off |-> 0, pos |-> 0, tok |-> <<>>, end |-> 0,
   err |-> <<>>, dead |-> FALSE, ntok |-> 0, nnode |-> 0,
   attok |-> 0, atnode |-> 0]

R(p, node) == [p |-> p, node |-> node]

\* Advance to the next token.
next(p) ==
  IF p.dead THEN p
  ELSE LET t == Token(p.src, p.off)
       IN [p EXCEPT !.pos = t.pos, !.tok = t.tok, !.off = t.off,
                    !.end = p.pos + Len(p.tok), !.ntok = @ + 1]

\* Scanner.SyntaxErr(): reports the error and aborts the run; it does not
\* return to the parser.
SyntaxErr(p, msg) ==
  [p EXCEPT !.err = Append(@, msg), !.dead = TRUE,
            !.attok = IF p.err = <<>> THEN p.ntok ELSE @,
            !.atnode = IF p.err = <<>> THEN p.nnode ELSE @]

syntaxErr(p, msg) == IF p.dead THEN p ELSE SyntaxErr(p, msg)

\* new(ast.X): one more AST node.
new(p) == IF p.dead THEN p ELSE [p EXCEPT !.nnode = @ + 1]

expect(p, tok) ==
  LET p1 == IF p.tok # tok THEN syntaxErr(p, <<"Expected '%s'", tok>>) ELSE p
  IN [p |-> next(p1), pos |-> p.pos]

check(p, tok) ==
  IF p.dead \/ p.tok # tok THEN [p |-> p, ok |-> FALSE]
  ELSE [p |-> next(p), ok |-> TRUE]

isSimpleName(n) == n # <<>> /\ IndexAny(n, {".", ":", "/", "@"}) = -1

isDomain(n) ==
  /\ \A i \in 1..Len(Split(n, ".")) : isSimpleName(Split(n, ".")[i])
  /\ n # <<>>

verifyHostname(p, name) ==
  LET id  == SliceFrom(name, 3)
      i   == Index(id, "@")
      err == IF HasPrefix(name, W.id)
             THEN (i > 0 /\ ~isDomain(Slice(id, 0, i)))
                  \/ ~isDomain(SliceFrom(id, i + 1))
             ELSE ~isSimpleName(name)
  IN IF err THEN syntaxErr(p, <<"Hostname expected">>) ELSE p

isNetworkName(n) ==
  LET i == Index(n, "/")
  IN (i = -1 \/ isSimpleName(Slice(n, 0, i))) /\ isSimpleName(SliceFrom(n, i + 1))

verifyNetworkName(p, n) ==
  IF ~isNetworkName(n) THEN syntaxErr(p, <<"Name or bridged name expected">>)
  ELSE p

verifySimpleName(p, n) ==
  IF ~isSimpleName(n) THEN syntaxErr(p, <<"Name expected">>) ELSE p

isRouterName(n) ==
  LET i == Index(n, "@")
  IN (i = -1 \/ isSimpleName(Slice(n, 0, i))) /\ isSimpleName(SliceFrom(n, i + 1))

\* parser.user: called by extendedName after check("user") has consumed
\* the "user" token.
user(p) ==
  LET node(p1) == R(new(p1), [kind |-> "User", Start |-> p.pos,
                              Next |-> p1.pos, End |-> p1.end])
  IN node(next(p))

\* ast.ObjectRef of the parser is the node the printer calls ast.NamedRef.
objectRef(p, typ, name) ==
  LET node(p1) == R(new(p1), [kind |-> "NamedRef", Start |-> p.pos,
                              Typ |-> typ, Name |-> name, Next |-> p1.pos,
                              End |-> p1.end])
  IN node(next(p))

hostRef(p, typ, name) == objectRef(verifyHostname(p, name), typ, name)

networkRef(p, typ, name) == objectRef(verifyNetworkName(p, name), typ, name)

simpleRef(p, typ, name) == objectRef(verifySimpleName(p, name), typ, name)

selector(p) ==
  LET bad == ~(p.tok = W.auto \/ p.tok = W.all)
      result(e) == [p |-> e.p, val |-> p.tok]
  IN result(expect(next(IF bad THEN syntaxErr(p, <<"Expected [auto|all]">>)
                        ELSE p),
                   <<"]">>))

\* intfRef that stores "" as the network of a selector.
intfRefEmptyNetwork(p, typ, name) ==
  LET i      == Index(name, ".")
      router == Slice(name, 0, i)
      net0   == SliceFrom(name, i + 1)
      err0   == ~isRouterName(router)
      j      == Index(net0, ".")
      node(p3, net, ext) ==
        R(new(p3), [kind |-> "IntfRef", Start |-> p.pos, Typ |-> typ,
                    Router |-> router, Network |-> net,
                    Extension |-> ext, Next |-> p3.pos, End |-> p3.end])
      verify(p2, net, ext, err) ==
        node(IF err THEN syntaxErr(p2, <<"Interface name expected">>)
             ELSE p2, net, ext)
      auto(sel) == verify(sel.p, <<>>, sel.val, err0)
      named(p1, net, ext) ==
        verify(p1, net, ext,
               (err0 \/ (j # -1 /\ ~isSimpleName(ext))) \/ ~isNetworkName(net))
      rest(p1) ==
        IF net0 = <<"[">> THEN auto(selector(p1))
        ELSE IF j # -1
             THEN named(p1, Slice(net0, 0, j), SliceFrom(net0, j + 1))
             ELSE named(p1, net0, <<>>)
  IN IF i = -1
     THEN R(syntaxErr(p, <<"Interface name expected">>), Nil)
     ELSE rest(next(p))

\* intfRef that does not verify the parts of the name.
intfRefUnverified(p, typ, name) ==
  LET i      == Index(name, ".")
      router == Slice(name, 0, i)
      net0   == SliceFrom(name, i + 1)
      j      == Index(net0, ".")
      node(p3, net, ext) ==
        R(new(p3), [kind |-> "IntfRef", Start |-> p.pos, Typ |-> typ,
                    Router |-> router, Network |-> net,
                    Extension |-> ext, Next |-> p3.pos, End |-> p3.end])
      auto(sel) == node(sel.p, net0, sel.val)
      rest(p1) ==
        IF net0 = <<"[">> THEN auto(selector(p1))
        ELSE IF j # -1
             THEN node(p1, Slice(net0, 0, j), SliceFrom(net0, j + 1))
             ELSE node(p1, net0, <<>>)
  IN IF i = -1
     THEN R(syntaxErr(p, <<"Interface name expected">>), Nil)
     ELSE rest(next(p))

intfRef(p, typ, name) ==
  LET i      == Index(name, ".")
      router == Slice(name, 0, i)
      net0   == SliceFrom(name, i + 1)
      err0   == ~isRouterName(router)
      j      == Index(net0, ".")
      node(p3, net, ext) ==
        R(new(p3), [kind |-> "IntfRef", Start |-> p.pos, Typ |-> typ,
                    Router |-> router, Network |-> net,
                    Extension |-> ext, Next |-> p3.pos, End |-> p3.end])
      verify(p2, net, ext, err) ==
        node(IF err THEN syntaxErr(p2, <<"Interface name expected">>)
             ELSE p2, net, ext)
      auto(sel) == verify(sel.p, net0, sel.val, err0)
      named(p1, net, ext) ==
        verify(p1, net, ext,
               (err0 \/ (j # -1 /\ ~isSimpleName(ext))) \/ ~isNetworkName(net))
      rest(p1) ==
        IF net0 = <<"[">> THEN auto(selector(p1))
        ELSE IF j # -1
             THEN named(p1, Slice(net0, 0, j), SliceFrom(net0, j + 1))
             ELSE named(p1, net0, <<>>)
  IN IF i = -1
     THEN R(syntaxErr(p, <<"Interface name expected">>), Nil)
     ELSE rest(next(p))

RECURSIVE union(_, _)
RECURSIVE unionLoop(_, _, _)
RECURSIVE intersectionLoop(_, _)

simpleAuto(p, start, typ) ==
  LET node(u) == R(new(u.p), [kind |-> "SimpleAuto", Start |-> start,
                              Typ |-> typ, Elements |-> u.list,
                              Next |-> u.p.pos, End |-> u.p.end])
  IN node(union(p, <<"]">>))

Digits == <<"0", "1", "2", "3", "4", "5", "6", "7", "8", "9">>

isDigit(c) == \E d \in 1..10 : Digits[d] = c

digitVal(c) == (CHOOSE d \in 1..10 : Digits[d] = c) - 1

\* Value of a non-empty run of decimal digits.
RECURSIVE decimal(_)
decimal(s) ==
  IF Len(s) = 1 THEN digitVal(s[1])
  ELSE 10 * decimal(SubSeq(s, 1, Len(s) - 1)) + digitVal(s[Len(s)])

isNumber(s) == s # <<>> /\ \A i \in 1..Len(s) : isDigit(s[i])

\* strconv.Atoi: [ok, val]
Atoi(s) ==
  LET signed == s # <<>> /\ s[1] \in {"+", "-"}
      body   == IF signed THEN Tail(s) ELSE s
  IN IF isNumber(body)
     THEN [ok |-> TRUE,
           val |-> IF signed /\ s[1] = "-" THEN 0 - decimal(body)
                   ELSE decimal(body)]
     ELSE [ok |-> FALSE, val |-> 0]

\* strconv.Itoa for n >= 0
RECURSIVE Itoa(_)
Itoa(n) == IF n < 10 THEN <<Digits[n + 1]>>
           ELSE Itoa(n \div 10) \o <<Digits[(n % 10) + 1]>>

\* net.ParseIP on a dotted-quad IPv4 literal: four decimal octets without
\* leading zeros, each at most 255; Nil for every other text of digits
\* and dots.  (IPv6 literals are not part of the modelled inputs.)
ParseIP(s) ==
  LET okPart(t) == /\ isNumber(t) /\ Len(t) <= 3
                   /\ (Len(t) > 1 => t[1] # "0")
                   /\ decimal(t) <= 255
      ip(parts) ==
        IF Len(parts) = 4 /\ \A i \in 1..4 : okPart(parts[i])
        THEN [kind |-> "IP", octets |-> [i \in 1..4 |-> decimal(parts[i])]]
        ELSE Nil
  IN ip(Split(s, "."))

IPv4len == 4

\* net.CIDRMask(ones, bits): Nil unless 0 <= ones <= bits.
CIDRMask(ones, bits) ==
  IF ones < 0 \/ ones > bits THEN Nil
  ELSE [kind |-> "Mask", ones |-> ones, bits |-> bits]

\* (*net.IPNet).String()
IPNetString(n) ==
  Itoa(n.IP.octets[1]) \o <<".">> \o Itoa(n.IP.octets[2]) \o <<".">> \o
  Itoa(n.IP.octets[3]) \o <<".">> \o Itoa(n.IP.octets[4]) \o <<"/">> \o
  Itoa(n.Mask.ones)

ipPrefix(p) ==
  LET bits == 8 * IPv4len
      withMask(ip, len, mask) ==
        IF len.ok /\ mask # Nil
        THEN R(next(p), [kind |-> "IPNet", IP |-> ip, Mask |-> mask])
        ELSE R(syntaxErr(p, <<"Prefixlen expected">>), Nil)
      withLen(ip, len) == withMask(ip, len, CIDRMask(len.val, bits))
      withIP(ip, i) ==
        IF ip # Nil THEN withLen(ip, Atoi(SliceFrom(p.tok, i + 1)))
        ELSE R(syntaxErr(p, <<"IP address expected">>), Nil)
      split(i) ==
        IF i # -1 THEN withIP(ParseIP(Slice(p.tok, 0, i)), i)
        ELSE R(syntaxErr(p, <<"Expected 'IP/prefixlen'">>), Nil)
  IN IF p.dead THEN R(p, Nil) ELSE split(Index(p.tok, "/"))

aggAuto(p, start, typ) ==
  LET node(net, u) ==
        R(new(u.p), [kind |-> "AggAuto", Start |-> start, Typ |-> typ,
                     Net |-> net, Elements |-> u.list,
                     Next |-> u.p.pos, End |-> u.p.end])
      c == check(p, W.ip)
      n == ipPrefix(check(c.p, <<"=">>).p)
  IN node(IF c.ok THEN n.node ELSE Nil,
          union(IF c.ok THEN expect(n.p, <<"&">>).p ELSE c.p, <<"]">>))

intfAuto(p, start, typ) ==
  LET node(m, u, s) ==
        R(new(s.p), [kind |-> "IntfAuto", Start |-> start, Typ |-> typ,
                     Managed |-> m, Selector |-> s.val,
                     Elements |-> u.list, Next |-> s.p.pos, End |-> s.p.end])
      sel(m, u) == node(m, u, selector(expect(u.p, <<".", "[">>).p))
      c == check(p, W.managed)
  IN sel(c.ok, union(IF c.ok THEN expect(c.p, <<"&">>).p ELSE c.p, <<"]">>))

typedName(p) ==
  LET split(tok, i) ==
        [p |-> IF i = -1 THEN syntaxErr(p, <<"Typed name expected">>) ELSE p,
         typ |-> Slice(tok, 0, i), name |-> SliceFrom(tok, i + 1)]
  IN split(p.tok, Index(p.tok, ":"))

extendedName(p) ==
  LET c == check(p, W.user)
      t == typedName(p)
  IN IF p.dead THEN R(p, Nil)
     ELSE IF c.ok THEN user(c.p)
     ELSE IF t.p.dead THEN R(t.p, Nil)
     ELSE IF t.name = <<"[">>
     THEN IF t.typ \in {W.host, W.network}
          THEN simpleAuto(next(t.p), p.pos, t.typ)
          ELSE IF t.typ = W.interface THEN intfAuto(next(t.p), p.pos, t.typ)
          ELSE IF t.typ = W.any THEN aggAuto(next(t.p), p.pos, t.typ)
          ELSE R(syntaxErr(next(t.p), <<"Unexpected automatic group">>), Nil)
     ELSE IF t.typ = W.host THEN hostRef(p, t.typ, t.name)
     ELSE IF t.typ = W.network THEN networkRef(p, t.typ, t.name)
     ELSE IF t.typ = W.interface THEN intfRef(p, t.typ, t.name)
     ELSE IF t.typ \in {W.any, W.area, W.group} THEN simpleRef(p, t.typ, t.name)
     ELSE R(syntaxErr(p, <<"Unknown element type">>), Nil)

complement(p) ==
  LET node(el) == R(new(el.p), [kind |-> "Complement", Start |-> p.pos,
                                Element |-> el.node, Next |-> el.p.pos,
                                End |-> el.p.end])
      wrap(ok, el) == IF ok THEN node(el) ELSE el
      c == check(p, <<"!">>)
  IN wrap(c.ok, extendedName(c.p))

\* The list of parser.intersection:
\*   append complement; for p.check("&") { append complement }
intersectionLoop(p, list) ==
  LET more(r, c) ==
        IF c.ok THEN intersectionLoop(c.p, Append(list, r.node))
        ELSE [p |-> c.p, list |-> Append(list, r.node)]
      step(r) == more(r, check(r.p, <<"&">>))
  IN step(complement(p))

intersection(p) ==
  LET result(l) ==
        IF Len(l.list) > 1
        THEN R(new(l.p), [kind |-> "Intersection", Start |-> p.pos,
                          List |-> l.list, Next |-> l.p.pos, End |-> l.p.end])
        ELSE R(l.p, l.list[1])
  IN result(intersectionLoop(p, <<>>))

\* unionLoop without the check for the stop token behind a comma.
unionLoopNoBreak(p, list, stopToken) ==
  LET comma(r, e) ==
        IF e.p.dead THEN [p |-> e.p, list |-> Append(list, r.node)]
        ELSE unionLoop(e.p, Append(list, r.node), stopToken)
      stop(r, c) ==
        IF r.p.dead \/ c.ok THEN [p |-> c.p, list |-> Append(list, r.node)]
        ELSE comma(r, expect(c.p, <<",">>))
      step(r) == stop(r, check(r.p, stopToken))
  IN step(intersection(p))

\* The list of parser.union:
\*   append intersection
\*   for !p.check(stopToken) { p.expect(","); if p.check(stopToken) { break }
\*                             append intersection }
unionLoop(p, list, stopToken) ==
  LET comma(r, c2) ==
        IF c2.p.dead \/ c2.ok THEN [p |-> c2.p, list |-> Append(list, r.node)]
        ELSE unionLoop(c2.p, Append(list, r.node), stopToken)
      stop(r, c) ==
        IF r.p.dead \/ c.ok THEN [p |-> c.p, list |-> Append(list, r.node)]
        ELSE comma(r, check(expect(c.p, <<",">>).p, stopToken))
      step(r) == stop(r, check(r.p, stopToken))
  IN step(intersection(p))

\* Read comma separated list of objects stopped by stopToken.
union(p, stopToken) == unionLoop(p, <<>>, stopToken)

description(p) ==
  LET node(t, p3) ==
        R(new(p3), [kind |-> "Description", Start |-> p.pos,
                    Text |-> t.tok, Next |-> p3.pos, End |-> p3.end])
      text(p1, t) ==
        node(t, next(IF p1.dead THEN p1
                     ELSE [p1 EXCEPT !.pos = t.pos, !.tok = t.tok,
                                     !.off = t.off]))
      toEOL(p1) == text(p1, ToEOL(p1.src, p1.off))
      start(c) ==
        IF c.ok
        THEN toEOL(IF c.p.tok # <<"=">>
                   THEN syntaxErr(c.p, <<"Expected '='">>) ELSE c.p)
        ELSE R(c.p, Nil)
  IN start(check(p, W.description))

\* group that reads a union even in front of ";".
groupAlwaysUnion(p) ==
  LET node(d, u) ==
        R(new(u.p), [kind |-> "Group", Start |-> p.pos, Name |-> p.tok,
                     Description |-> d.node, Elements |-> u.list,
                     Next |-> u.p.pos, End |-> u.p.end, Fname |-> ""])
      descr == description(expect(next(p), <<"=">>).p)
  IN node(descr, union(descr.p, <<";">>))

group(p) ==
  LET node(d, u) ==
        R(new(u.p), [kind |-> "Group", Start |-> p.pos, Name |-> p.tok,
                     Description |-> d.node, Elements |-> u.list,
                     Next |-> u.p.pos, End |-> u.p.end, Fname |-> ""])
      descr == description(expect(next(p), <<"=">>).p)
      c == check(descr.p, <<";">>)
  IN node(descr, IF c.ok THEN [p |-> c.p, list |-> <<>>]
                 ELSE union(c.p, <<";">>))

\* globalType: only "group" is registered.
globalType == {W.group}

\* toplevel that looks up the type before it checks the name.
toplevelTypeFirst(p, fname) ==
  LET result(g) == R(g.p, [g.node EXCEPT !.Fname = fname])
      t == typedName(p)
      valid(p1) ==
        IF ~(  (t.typ = W.router /\ isRouterName(t.name))
            \/ (t.typ = W.network /\ isNetworkName(t.name))
            \/ isSimpleName(t.name))
        THEN syntaxErr(p1, <<"Invalid token">>) ELSE p1
      lookup ==
        valid(IF t.typ \notin globalType
              THEN syntaxErr(t.p, <<"Unknown global definition">>) ELSE t.p)
  IN result(group(lookup))

toplevel(p, fname) ==
  LET result(g) == R(g.p, [g.node EXCEPT !.Fname = fname])
      t == typedName(p)
      lookup(p1) ==
        IF t.typ \notin globalType
        THEN syntaxErr(p1, <<"Unknown global definition">>) ELSE p1
      valid ==
        lookup(IF ~(  (t.typ = W.router /\ isRouterName(t.name))
                   \/ (t.typ = W.network /\ isNetworkName(t.name))
                   \/ isSimpleName(t.name))
               THEN syntaxErr(t.p, <<"Invalid token">>) ELSE t.p)
  IN result(group(valid))

\* parser.file: one iteration of its loop  for p.tok != "" { append toplevel }
fileStep(p, list, fname) ==
  LET result(t) ==
        [p |-> t.p, list |-> IF t.p.dead THEN list ELSE Append(list, t.node)]
  IN result(toplevel(p, fname))

\* ------------------------------------------------------------------------
\* AST (package ast; its source is not part of src/)

\* Node.Pos(): start position of the node.
Pos(n) == n.Start

\* Node.End(): position behind the last token of the node.
End(n) == n.End

\* Toplevel.GetName()
GetName(n) == n.Name

\* Toplevel.GetDescription()
GetDescription(n) == n.Description

\* Toplevel.IsList(): a group is a list, a service is not.
IsList(n) == n.kind = "Group"

\* ------------------------------------------------------------------------
\* Printer (package printer)

\* The printer structure (its src is passed along as an argument); panic
\* records a run-time panic of the printer, low the lowest value of indent
\* at which a line was printed.
NewPrinter == [output |-> <<>>, indent |-> 0, panic |-> FALSE, low |-> 0]

\* printer.init: add \n at end of last line.
init(src) ==
  IF Len(src) > 0 /\ src[Len(src)] # "\n" THEN Append(src, "\n") ELSE src

print(pr, line) ==
  [pr EXCEPT !.output =
     (@ \o (IF line # <<>> THEN Spaces(pr.indent) ELSE <<>>)) \o line
        \o <<"\n">>,
             !.low = IF pr.indent < @ THEN pr.indent ELSE @]

\* emptyLine that does not look at the end of the output.
emptyLineAlways(pr) == [pr EXCEPT !.output = Append(@, "\n")]

emptyLine(pr) ==
  LET l == Len(pr.output)
  IN IF l < 2 \/ pr.output[l] # "\n" \/ pr.output[l - 1] # "\n"
     THEN [pr EXCEPT !.output = Append(@, "\n")]
     ELSE pr

\* Comment recovery (printer.PreComment, printer.TrailingComment,
\* printer.TrailingCommentAt; their source is not part of src/).

\* The comment that follows offset pos on the same source line, behind
\* blanks and characters of ign only, as " #text"; "" if there is none.
RECURSIVE TrailingCommentAt(_, _, _)
TrailingCommentAt(src, pos, ign) ==
  IF pos >= Len(src) THEN <<>>
  ELSE LET c == src[pos + 1]
       IN IF c = "#" THEN <<" ">> \o Slice(src, pos, EOL(src, pos))
          ELSE IF c # "\n" /\ (c \in Whitespace \/ c \in ign)
          THEN TrailingCommentAt(src, pos + 1, ign)
          ELSE <<>>

TrailingComment(src, n, ign) == TrailingCommentAt(src, End(n), ign)

\* Offset of the start of the line that holds offset pos.
RECURSIVE lineStart(_, _)
lineStart(src, pos) ==
  IF pos <= 0 \/ src[pos] = "\n" THEN pos ELSE lineStart(src, pos - 1)

isBlank(text, ign) ==
  \A i \in 1..Len(text) : text[i] \in Whitespace \/ text[i] \in ign

\* The source lines directly above the line that starts at offset ls which
\* hold nothing but blanks, characters of ign and a comment: the comment of
\* each such line, <<>> for a line without comment, in source order.  The
\* line of the previous token ends the search; its comment is the trailing
\* comment of that token.
RECURSIVE commentLines(_, _, _)
commentLines(src, ls, ign) ==
  IF ls <= 0 THEN <<>>
  ELSE LET pls  == lineStart(src, ls - 1)
           line == Slice(src, pls, ls - 1)
           h    == Index(line, "#")
           code == IF h = -1 THEN line ELSE Slice(line, 0, h)
       IN IF isBlank(code, ign)
          THEN Append(commentLines(src, pls, ign),
                      IF h = -1 THEN <<>> ELSE SliceFrom(line, h))
          ELSE <<>>

\* Print comment lines at the current indentation; empty lines before the
\* first comment are dropped, a run of empty lines is printed as one.
RECURSIVE comment(_, _, _)
comment(pr, lines, started) ==
  IF lines = <<>> THEN pr
  ELSE IF Head(lines) = <<>>
       THEN comment(IF started THEN emptyLine(pr) ELSE pr, Tail(lines), started)
       ELSE comment(print(pr, Head(lines)), Tail(lines), TRUE)

\* The comments on their own lines between the previous token and node n.
PreComment(pr, src, n, ign) ==
  LET ls == lineStart(src, Pos(n))
  IN IF isBlank(Slice(src, ls, Pos(n)), ign)
     THEN comment(pr, commentLines(src, ls, ign), FALSE)
     ELSE pr

\* isShort that does not look at the length of the list.
isShortFirst(l) ==
  IF Len(l) >= 1
  THEN IF l[1].kind = "NamedRef" THEN (l[1].Typ \o <<":">>) \o l[1].Name
       ELSE IF l[1].kind = "User" THEN W.user
       ELSE <<>>
  ELSE <<>>

isShort(l) ==
  IF Len(l) = 1
  THEN IF l[1].kind = "NamedRef" THEN (l[1].Typ \o <<":">>) \o l[1].Name
       ELSE IF l[1].kind = "User" THEN W.user
       ELSE <<>>
  ELSE <<>>

RECURSIVE element(_, _, _, _, _)
RECURSIVE elementListLoop(_, _, _, _)
RECURSIVE pr_intersectionLoop(_, _, _, _)

\* elementList that does not take back its indentation.
elementListUnbalanced(pr, src, l, stop) ==
  print(elementListLoop([pr EXCEPT !.indent = @ + 1], src, l, 1), stop)

elementList(pr, src, l, stop) ==
  print([elementListLoop([pr EXCEPT !.indent = @ + 1], src, l, 1)
           EXCEPT !.indent = @ - 1],
        stop)

subElements(pr, src, p1, p2, l, stop) ==
  LET name == isShort(l)
      ind  == Len(p1)
  IN IF name # <<>>
     THEN print(pr, ((p1 \o p2) \o name) \o stop)
     ELSE [elementList([print(pr, p1 \o p2) EXCEPT !.indent = @ + ind],
                       src, l, stop)
             EXCEPT !.indent = @ - ind]

\* intersection that does not indent the later members by the width of pre.
pr_intersectionFlat(pr, src, pre, l, post) ==
  print(pr_intersectionLoop(
          element(pr, src, pre, l[1], TrailingComment(src, l[1], {"&", "!"})),
          src, l, 2),
        post)

\* printer.intersection
pr_intersection(pr, src, pre, l, post) ==
  LET ind == Len(pre)
  IN [print(pr_intersectionLoop(
              [element(pr, src, pre, l[1],
                       TrailingComment(src, l[1], {"&", "!"}))
                 EXCEPT !.indent = @ + ind],
              src, l, 2),
            post)
        EXCEPT !.indent = @ - ind]

\* The loop of printer.intersection over l[1:]
pr_intersectionLoop(pr, src, l, i) ==
  IF i > Len(l) THEN pr
  ELSE LET isC == l[i].kind = "Complement"
           pre == (<<"&">> \o (IF isC THEN <<"!">> ELSE <<>>)) \o <<" ">>
           el  == IF isC THEN l[i].Element ELSE l[i]
       IN pr_intersectionLoop(
            element(PreComment(pr, src, el, {"&", "!"}), src, pre, el,
                    TrailingComment(src, el, {"&", "!", ",", ";"})),
            src, l, i + 1)

element(pr, src, pre, el, post) ==
  CASE el.kind = "NamedRef" ->
         print(pr, ((pre \o el.Typ) \o <<":">>) \o el.Name \o post)
    [] el.kind = "IntfRef" ->
         LET isSel == el.Network = <<"[">>
             net   == IF isSel THEN (<<"[">> \o el.Extension) \o <<"]">>
                      ELSE el.Network
             ext   == IF isSel THEN <<>>
                      ELSE IF el.Extension # <<>> THEN <<".">> \o el.Extension
                      ELSE el.Extension
         IN print(pr, ((((pre \o el.Typ) \o <<":">>) \o el.Router) \o <<".">>)
                      \o net \o ext \o post)
    [] el.kind = "SimpleAuto" ->
         subElements(pr, src, pre, el.Typ \o <<":", "[">>, el.Elements,
                     <<"]">> \o post)
    [] el.kind = "AggAuto" ->
         LET p2 == (el.Typ \o <<":", "[">>) \o
                   (IF el.Net # Nil
                    THEN (<<"i", "p", " ", "=", " ">> \o IPNetString(el.Net))
                         \o <<" ", "&", " ">>
                    ELSE <<>>)
         IN subElements(pr, src, pre, p2, el.Elements, <<"]">> \o post)
    [] el.kind = "IntfAuto" ->
         LET stop == ((<<"]", ".", "[">> \o el.Selector) \o <<"]">>) \o post
             p2   == (el.Typ \o <<":", "[">>) \o
                     (IF el.Managed THEN W.managed \o <<" ", "&", " ">>
                      ELSE <<>>)
         IN subElements(pr, src, pre, p2, el.Elements, stop)
    [] el.kind = "Intersection" -> pr_intersection(pr, src, pre, el.List, post)
    [] el.kind = "Complement" ->
         element(pr, src, <<"!", " ">>, el.Element, post)
    [] el.kind = "User" -> print(pr, (pre \o W.user) \o post)
    [] OTHER -> [pr EXCEPT !.panic = TRUE]

\* elementListLoop that adds the trailing comment to an intersection, too.
elementListLoopTrailing(pr, src, l, i) ==
  IF i > Len(l) \/ pr.panic THEN pr
  ELSE LET el   == l[i]
           post == <<",">>
       IN elementListLoop(
            element(PreComment(pr, src, el, {","}), src, <<>>, el,
                    post \o TrailingComment(src, el, {",", ";"})),
            src, l, i + 1)

\* The loop of printer.elementList over l
elementListLoop(pr, src, l, i) ==
  IF i > Len(l) \/ pr.panic THEN pr
  ELSE LET el   == l[i]
           post == <<",">>
       IN elementListLoop(
            element(PreComment(pr, src, el, {","}), src, <<>>, el,
                    IF el.kind = "Intersection" THEN post
                    ELSE post \o TrailingComment(src, el, {",", ";"})),
            src, l, i + 1)

topList(pr, src, n) == elementList(pr, src, n.Elements, <<";">>)

\* printer.group
pr_group(pr, src, g) == topList(pr, src, g)

\* The show function of printer.attribute: print one ast.Value.
showValue(pr, src, pre, l, post) ==
  IF l.kind = "Value" THEN print(pr, (pre \o l.Value) \o post)
  ELSE [pr EXCEPT !.panic = TRUE]

RECURSIVE joinDetails(_)
joinDetails(ds) ==
  IF ds = <<>> THEN <<>> ELSE (<<" ">> \o Head(ds)) \o joinDetails(Tail(ds))

protocol(pr, src, pre, el, post) ==
  LET out == CASE el.kind = "NamedRef" -> ((pre \o el.Typ) \o <<":">>) \o el.Name
               [] el.kind = "SimpleProtocol" ->
                    (pre \o el.Proto) \o joinDetails(el.Details)
               [] OTHER -> pre
  IN print(pr, out \o post)

\* The function value show of printer.namedList, named by a tag:
\* (*printer).element, (*printer).protocol or the closure of attribute.
Show(show, pr, src, pre, el, post) ==
  CASE show = "element"  -> element(pr, src, pre, el, post)
    [] show = "protocol" -> protocol(pr, src, pre, el, post)
    [] show = "value"    -> showValue(pr, src, pre, el, post)

\* The loop of printer.namedList over rest
RECURSIVE namedListLoop(_, _, _, _, _)
namedListLoop(pr, src, rest, i, show) ==
  IF i > Len(rest) \/ pr.panic THEN pr
  ELSE LET v == rest[i]
       IN namedListLoop(
            Show(show, PreComment(pr, src, v, {","}), src, <<>>, v,
                 <<",">> \o TrailingComment(src, v, {",", ";"})),
            src, rest, i + 1, show)

\* l[0] of an empty list is a run-time panic.  With an empty rest the
\* loop prints nothing and the closing ";" line is not printed.
namedList(pr, src, name, l, show) ==
  LET pre  == name \o <<" ", "=", " ">>
      ind  == Len(pre)
      rest == Tail(l)
      post == IF Len(rest) = 0 THEN <<";">> ELSE <<",">>
      close(q3) == IF Len(rest) # 0 THEN print(q3, <<";">>) ELSE q3
  IN IF l = <<>> THEN [pr EXCEPT !.panic = TRUE]
     ELSE [close(namedListLoop(
                   [Show(show, pr, src, pre, l[1],
                         post \o TrailingComment(src, l[1], {",", ";"}))
                      EXCEPT !.indent = @ + ind],
                   src, rest, 1, show))
             EXCEPT !.indent = @ - ind]

attribute(pr, src, n) ==
  IF Len(n.Values) = 0
  THEN print(PreComment(pr, src, n, {}),
             (n.Name \o <<";">>) \o TrailingComment(src, n, {",", ";"}))
  ELSE namedList(PreComment(pr, src, n, {}), src, n.Name, n.Values, "value")

rule(pr, src, n) ==
  LET action == IF n.Deny THEN W.deny ELSE W.permit
      ind    == Len(action) + 1
      log(q5) == IF n.Log # Nil THEN attribute(q5, src, n.Log) ELSE q5
  IN [log(namedList(
            namedList(
              [namedList(PreComment(pr, src, n, {}), src,
                         (action \o <<" ">>) \o W.src, n.Src, "element")
                 EXCEPT !.indent = @ + ind],
              src, W.dst, n.Dst, "element"),
            src, W.prt, n.Prt, "protocol"))
        EXCEPT !.indent = @ - ind]

RECURSIVE attributeLoop(_, _, _, _)
attributeLoop(pr, src, l, i) ==
  IF i > Len(l) \/ pr.panic THEN pr
  ELSE attributeLoop(attribute(pr, src, l[i]), src, l, i + 1)

RECURSIVE ruleLoop(_, _, _, _)
ruleLoop(pr, src, l, i) ==
  IF i > Len(l) \/ pr.panic THEN pr
  ELSE ruleLoop(rule(pr, src, l[i]), src, l, i + 1)

\* serviceUser that does not look at the foreach flag.
serviceUserNamed(pr, src, n) == namedList(pr, src, W.user, n.User, "element")

\* The user list of printer.service.
serviceUser(pr, src, n) ==
  IF n.Foreach
  THEN elementList(print(pr, (W.user \o <<" ", "=", " ">>) \o W.foreach),
                   src, n.User, <<";">>)
  ELSE namedList(pr, src, W.user, n.User, "element")

service(pr, src, n) ==
  print([ruleLoop(
           serviceUser(
             emptyLine(attributeLoop(emptyLine([pr EXCEPT !.indent = @ + 1]),
                                     src, n.Attributes, 1)),
             src, n),
           src, n.Rules, 1)
           EXCEPT !.indent = @ - 1],
        <<"}">>)

\* The head of printer.toplevel: the comments in front of the definition,
\* its name line and its description.
toplevelHead(pr, src, n) ==
  LET sep == <<" ", "=">> \o (IF ~IsList(n) THEN <<" ", "{">> ELSE <<>>)
      pos == Pos(n) + Len(GetName(n))
      sepChars == {sep[i] : i \in 1..Len(sep)}
      d   == GetDescription(n)
      descr(q2) ==
        IF d # Nil
        THEN emptyLine(
               [print(PreComment([q2 EXCEPT !.indent = @ + 1], src, d,
                                 sepChars),
                      (W.description \o <<" ", "=">>) \o d.Text
                        \o TrailingComment(src, d, {"="}))
                  EXCEPT !.indent = @ - 1])
        ELSE q2
  IN descr(print(PreComment(pr, src, n, {}),
                 (GetName(n) \o sep) \o TrailingCommentAt(src, pos, sepChars)))

\* printer.toplevel
pr_toplevel(pr, src, n) ==
  CASE n.kind = "Group" -> pr_group(toplevelHead(pr, src, n), src, n)
    [] n.kind = "Service" -> service(toplevelHead(pr, src, n), src, n)
    [] OTHER -> [toplevelHead(pr, src, n) EXCEPT !.panic = TRUE]

\* The loop of printer.File over list
RECURSIVE FileLoop(_, _, _, _)
FileLoop(pr, src, list, i) ==
  IF i > Len(list) \/ pr.panic THEN pr
  ELSE LET sep(q1) == IF i # Len(list) THEN print(q1, <<>>) ELSE q1
       IN FileLoop(sep(pr_toplevel(pr, src, list[i])), src, list, i + 1)

\* File that ends its output with an empty line.
FileEmptyLine(list, src) ==
  print(FileLoop(NewPrinter, init(src), list, 1), <<>>)

\* printer.File: the text written to standard output; nothing is written
\* when the printer panics.
File(list, src) == FileLoop(NewPrinter, init(src), list, 1)

\* ------------------------------------------------------------------------
\* The pipeline of main(): ParseFile, then printer.File on its result.
\* run 2 is a second invocation of the program on the text the first
\* invocation printed.

VARIABLES
  src,    \* bytes of the input file
  pc,     \* "start", "parsing", "parsed", "failed", "printed"
  p,      \* the parser
  list,   \* the toplevels parsed so far, returned when pc = "parsed"
  out,    \* the text written to standard output
  run,    \* number of the invocation, 1 or 2
  src1,   \* input of the first invocation
  out1    \* output of the first invocation

vars == <<src, pc, p, list, out, run, src1, out1>>

fname == "INPUT"

Start(s) ==
  /\ src = s
  /\ pc = "start"
  /\ p = NewParser(s)
  /\ list = <<>>
  /\ out = <<>>
  /\ run = 1
  /\ src1 = s
  /\ out1 = <<>>

\* ParseFile: p.init(src, fname), which reads the first token.
ParseInit ==
  /\ pc = "start"
  /\ p' = next(NewParser(src))
  /\ pc' = "parsing"
  /\ UNCHANGED <<src, list, out, run, src1, out1>>

\* parser.file: one iteration of the loop; a syntax error aborts the run.
FileLoopStep ==
  /\ pc = "parsing"
  /\ p.tok # <<>>
  /\ LET step(r) == /\ p' = r.p
                     /\ list' = r.list
                     /\ pc' = IF r.p.dead THEN "failed" ELSE "parsing"
     IN step(fileStep(p, list, fname))
  /\ UNCHANGED <<src, out, run, src1, out1>>

\* parser.file returns the list at the end of the input.
FileReturn ==
  /\ pc = "parsing"
  /\ p.tok = <<>>
  /\ pc' = "parsed"
  /\ UNCHANGED <<src, p, list, out, run, src1, out1>>

\* main that prints the list whether or not the parser failed.
MainFileAlways ==
  /\ pc \in {"parsed", "failed"}
  /\ LET write(r) == out' = IF r.panic THEN <<>> ELSE r.output
     IN write(File(list, src))
  /\ pc' = "printed"
  /\ UNCHANGED <<src, p, list, run, src1, out1>>

\* main: printer.File(list, bytes)
MainFile ==
  /\ pc = "parsed"
  /\ LET write(r) == out' = IF r.panic THEN <<>> ELSE r.output
     IN write(File(list, src))
  /\ pc' = "printed"
  /\ UNCHANGED <<src, p, list, run, src1, out1>>

\* The program is run again on the text it printed.
Rerun ==
  /\ pc = "printed"
  /\ run = 1
  /\ src' = out
  /\ out1' = out
  /\ run' = 2
  /\ pc' = "start"
  /\ p' = NewParser(out)
  /\ list' = <<>>
  /\ out' = <<>>
  /\ UNCHANGED src1

Next == ParseInit \/ FileLoopStep \/ FileReturn \/ MainFile \/ Rerun

\* ------------------------------------------------------------------------
\* Input files

\* All texts of at most n characters of the set A.
Texts(A, n) == UNION {[1..k -> A] : k \in 0..n}

\* The tokens toks, separated by sep.
RECURSIVE Join(_, _)
Join(toks, sep) ==
  IF toks = <<>> THEN <<>>
  ELSE IF Len(toks) = 1 THEN toks[1]
  ELSE (Head(toks) \o sep) \o Join(Tail(toks), sep)

Typed(typ, name) == (typ \o <<":">>) \o name

GroupG == Typed(W.group, <<"g">>)

\* Tokens of the bodies of TokenInputs.
BodyTokens ==
  { Typed(W.host, <<"a">>), Typed(W.group, <<"b">>),
    Typed(W.network, <<"[">>), W.user, <<"]">>, <<",">>, <<";">>, <<"&">>,
    <<"!">> }

\* "group:g = " followed by every sequence of at most MaxToks body tokens
\* that is shorter than MaxToks or ends with ";".
TokenInputs ==
  { Join((<<GroupG, <<"=">>>> \o body) \o end, <<" ">>) \o <<"\n">> :
      body \in Texts(BodyTokens, MaxToks - 1), end \in {<<>>, <<<<";">>>>} }

TopTypes == {W.group, W.router, W.network, W.host, <<"f", "o", "o">>}

NameChars == {"x", ".", ":", "/", "@"}

\* "typ:name = ;" for every name of at most MaxName characters.
TopInputs ==
  { Join(<<Typed(typ, name), <<"=">>, <<";">>>>, <<" ">>) \o <<"\n">> :
      typ \in TopTypes, name \in Texts(NameChars, MaxName) }

IntfChars == {"r", ".", "/", "@"}

\* "group:g = interface:X;" for every X of at most MaxIntfName characters.
IntfInputs ==
  { Join(<<GroupG, <<"=">>, Typed(W.interface, x) \o <<";">>>>, <<" ">>)
      \o <<"\n">> : x \in Texts(IntfChars, MaxIntfName) }

HostA == Typed(W.host, <<"a">>)
HostB == Typed(W.host, <<"b">>)
NetN  == Typed(W.network, <<"n">>)

\* Token sequences of source files, laid out by Layout.  The text of the
\* description ends its line.
Shapes ==
  { <<>>,
    <<GroupG, <<"=">>, <<";">>>>,
    <<GroupG, <<"=">>, HostA, <<",">>, NetN, <<";">>>>,
    <<GroupG, <<"=">>, Typed(W.network, <<"[">>), HostA, <<"]">>, <<",">>,
      HostB, <<";">>>>,
    <<GroupG, <<"=">>, Typed(W.network, <<"[">>), HostA, <<",">>, HostB,
      <<"]">>, <<";">>>>,
    <<GroupG, <<"=">>, Typed(W.interface, <<"r", ".", "[">>), W.auto, <<"]">>,
      <<";">>>>,
    <<GroupG, <<"=">>, Typed(W.interface, <<"r", ".", "[">>), W.all, <<"]">>,
      <<",">>, HostA, <<";">>>>,
    <<GroupG, <<"=">>, Typed(W.group, <<"b">>), <<"&">>, HostA, <<"&">>,
      <<"!">>, HostB, <<";">>>>,
    <<GroupG, <<"=">>, W.description, <<"=">>, <<"x", "\n">>, HostA,
      <<";">>>>,
    <<GroupG, <<"=">>, HostA, <<";">>, Typed(W.group, <<"h">>), <<"=">>,
      <<";">>>>,
    <<GroupG, <<"=">>, Typed(W.interface, <<"[">>), HostA, <<"]">>,
      <<".", "[">>, W.all, <<"]">>, <<";">>>>,
    <<GroupG, <<"=">>, Typed(W.any, <<"[">>), W.ip, <<"=">>,
      <<"1", ".", "2", ".", "3", ".", "4", "/", "8">>, <<"&">>,
      Typed(W.area, <<"a">>), <<"]">>, <<";">>>> }

\* Text of the comment put behind token number i.
CommentText(i) == <<"#", Digits[i + 1]>>

\* What stands behind token number i of toks (i = 0: at the start of the
\* file): a comment if i is in C, in one of three forms (1: at the end of
\* the token's line, 2: on a line of its own, 3: on a line of its own
\* between empty lines), and the separator base otherwise.
Gap(toks, i, base, C, form) ==
  IF i \in C
  THEN CASE form = 1 -> (<<" ">> \o CommentText(i)) \o <<"\n">>
         [] form = 2 -> (<<"\n">> \o CommentText(i)) \o <<"\n">>
         [] form = 3 -> (<<"\n", "\n", " ">> \o CommentText(i)) \o <<"\n", "\n">>
  ELSE IF i = 0 THEN <<>>
  ELSE IF i = Len(toks) THEN <<"\n">>
  ELSE base

RECURSIVE LayoutFrom(_, _, _, _, _)
LayoutFrom(toks, i, base, C, form) ==
  IF i > Len(toks) THEN <<>>
  ELSE ((IF i = 0 THEN <<>> ELSE toks[i]) \o Gap(toks, i, base, C, form))
       \o LayoutFrom(toks, i + 1, base, C, form)

Layout(toks, base, C, form) == LayoutFrom(toks, 0, base, C, form)

\* Every shape, with spaces or newlines between its tokens and at most
\* MaxComments comments behind its tokens.
LayoutInputs ==
  { Layout(toks, base, C, form) :
      toks \in Shapes, base \in {<<" ">>, <<"\n">>}, form \in 1..3,
      C \in {D \in SUBSET (0..9) : Cardinality(D) <= MaxComments} }

Inputs == TokenInputs \cup LayoutInputs

Init == \E s \in Inputs : Start(s)

Spec == Init /\ [][Next]_vars

InitTop == \E s \in TopInputs : Start(s)

SpecTop == InitTop /\ [][Next]_vars

InitIntf == \E s \in IntfInputs : Start(s)

SpecIntf == InitIntf /\ [][Next]_vars

\* printer.File applied to a list the caller built: one group that holds
\* one automatic group, for every nested list of at most MaxMembers members.
\* Spans are not used by the printer when the source text is empty.
NamedNode(typ, name) ==
  [kind |-> "NamedRef", Start |-> 0, Typ |-> typ, Name |-> name,
   Next |-> 0, End |-> 0]

PrintMembers ==
  { NamedNode(W.host, <<"a">>),
    [kind |-> "User", Start |-> 0, Next |-> 0, End |-> 0],
    [kind |-> "IntfRef", Start |-> 0, Typ |-> W.interface,
     Router |-> <<"r">>, Network |-> <<"n">>, Extension |-> <<>>,
     Next |-> 0, End |-> 0],
    [kind |-> "SimpleAuto", Start |-> 0, Typ |-> W.network,
     Elements |-> <<NamedNode(W.host, <<"b">>)>>, Next |-> 0, End |-> 0],
    [kind |-> "Intersection", Start |-> 0,
     List |-> <<NamedNode(W.group, <<"b">>),
                [kind |-> "Complement", Start |-> 0,
                 Element |-> NamedNode(W.host, <<"b">>),
                 Next |-> 0, End |-> 0]>>,
     Next |-> 0, End |-> 0],
    [kind |-> "Complement", Start |-> 0,
     Element |-> NamedNode(W.host, <<"a">>), Next |-> 0, End |-> 0] }

PrintAutos(l) ==
  { [kind |-> "SimpleAuto", Start |-> 0, Typ |-> W.network, Elements |-> l,
     Next |-> 0, End |-> 0],
    [kind |-> "AggAuto", Start |-> 0, Typ |-> W.any, Net |-> Nil,
     Elements |-> l, Next |-> 0, End |-> 0],
    [kind |-> "IntfAuto", Start |-> 0, Typ |-> W.interface,
     Managed |-> TRUE, Selector |-> W.all, Elements |-> l,
     Next |-> 0, End |-> 0] }

PrintGroups ==
  { [kind |-> "Group", Start |-> 0, Name |-> GroupG, Description |-> Nil,
     Elements |-> <<a>>, Next |-> 0, End |-> 0, Fname |-> fname] :
      a \in UNION {PrintAutos(l) : l \in Texts(PrintMembers, MaxMembers)} }

InitPrint ==
  \E g \in PrintGroups :
    /\ src = <<>>
    /\ pc = "parsed"
    /\ p = NewParser(<<>>)
    /\ list = <<g>>
    /\ out = <<>>
    /\ run = 1
    /\ src1 = <<>>
    /\ out1 = <<>>

SpecPrint == InitPrint /\ [][Next]_vars

\* printer.File applied to lists with services, which the caller built (the
\* parser reads no services).  All spans are 0 and the source text is empty.
AutoNode(typ, l) ==
  [kind |-> "SimpleAuto", Start |-> 0, Typ |-> typ, Elements |-> l,
   Next |-> 0, End |-> 0]

InterNode(l) ==
  [kind |-> "Intersection", Start |-> 0, List |-> l, Next |-> 0, End |-> 0]

ComplNode(e) ==
  [kind |-> "Complement", Start |-> 0, Element |-> e, Next |-> 0, End |-> 0]

UserNode == [kind |-> "User", Start |-> 0, Next |-> 0, End |-> 0]

\* Elements in which automatic groups and intersections are nested at most
\* d deep.  The members of an intersection are no intersections: the
\* language has no brackets for them.
RECURSIVE Nested(_)
Nested(d) ==
  IF d = 0 THEN {NamedNode(W.host, <<"a">>), UserNode}
  ELSE LET E == Nested(d - 1)
           M == {x \in E : x.kind # "Intersection"}
       IN E \cup {AutoNode(W.network, <<e>>) : e \in E}
            \cup {AutoNode(W.host, <<e, NamedNode(W.network, <<"n">>)>>) :
                    e \in E}
            \cup {InterNode(<<e, ComplNode(NamedNode(W.host, <<"b">>))>>) :
                    e \in M}
            \cup {InterNode(<<NamedNode(W.group, <<"b">>), e, UserNode>>) :
                    e \in M}

\* The lists of elements of a service: user lists, src and dst of rules.
ElementLists ==
  Texts(PrintMembers, MaxMembers) \cup {<<e>> : e \in Nested(MaxDepth)}

ValueNode(v) == [kind |-> "Value", Start |-> 0, Next |-> 0, End |-> 0,
                 Value |-> v]

AttributeNode(name, vals) ==
  [kind |-> "Attribute", Start |-> 0, Next |-> 0, End |-> 0, Name |-> name,
   Values |-> vals]

PrintAttributes ==
  { <<>>,
    <<AttributeNode(<<"m">>, <<>>)>>,
    <<AttributeNode(<<"o">>, <<ValueNode(<<"x">>), ValueNode(<<"y">>)>>),
      AttributeNode(<<"m">>, <<ValueNode(<<"z">>)>>)>> }

ProtocolNode(proto, details) ==
  [kind |-> "SimpleProtocol", Start |-> 0, Next |-> 0, End |-> 0,
   Proto |-> proto, Details |-> details]

RuleNode(deny, s, d, prt, log) ==
  [kind |-> "Rule", Start |-> 0, Next |-> 0, End |-> 0, Deny |-> deny,
   Src |-> s, Dst |-> d, Prt |-> prt, Log |-> log]

Tcp80 == ProtocolNode(<<"t", "c", "p">>, <<<<"8", "0">>>>)

PrintRules ==
  { <<>>,
    <<RuleNode(FALSE, <<UserNode>>, <<NamedNode(W.network, <<"n">>)>>,
               <<Tcp80>>, Nil)>>,
    <<RuleNode(TRUE,
               <<InterNode(<<NamedNode(W.group, <<"b">>),
                             ComplNode(NamedNode(W.host, <<"b">>))>>),
                 NamedNode(W.host, <<"a">>)>>,
               <<AutoNode(W.network, <<UserNode>>),
                 AutoNode(W.host, <<UserNode, NamedNode(W.host, <<"a">>)>>)>>,
               <<Tcp80, NamedNode(<<"p">>, <<"q">>)>>,
               AttributeNode(<<"l", "o", "g">>, <<ValueNode(<<"x">>)>>)),
      RuleNode(FALSE, <<UserNode>>, <<UserNode>>, <<Tcp80>>,
               AttributeNode(<<"l", "o", "g">>, <<>>))>>,
    <<RuleNode(FALSE, <<>>, <<UserNode>>, <<Tcp80>>, Nil)>>,
    <<RuleNode(FALSE, <<UserNode>>, <<>>, <<Tcp80>>, Nil)>>,
    <<RuleNode(FALSE, <<UserNode>>, <<UserNode>>, <<>>, Nil)>> }

ServiceS == <<"s", "e", "r", "v", "i", "c", "e", ":", "s">>

DescriptionNode ==
  [kind |-> "Description", Start |-> 0, Next |-> 0, End |-> 0,
   Text |-> <<" ", "x">>]

PrintServices ==
  { [kind |-> "Service", Start |-> 0, Next |-> 0, End |-> 0,
     Name |-> ServiceS, Description |-> d, Attributes |-> a,
     Foreach |-> f, User |-> u, Rules |-> r, Fname |-> fname] :
      d \in {Nil, DescriptionNode}, a \in PrintAttributes, f \in BOOLEAN,
      u \in ElementLists, r \in PrintRules }

\* A group of one member e.
GroupOf(e) ==
  [kind |-> "Group", Start |-> 0, Name |-> GroupG, Description |-> Nil,
   Elements |-> <<e>>, Next |-> 0, End |-> 0, Fname |-> fname]

\* A node of a variant the printer does not know.
UnknownNode ==
  [kind |-> "Unknown", Start |-> 0, Next |-> 0, End |-> 0,
   Name |-> <<"a", "r", "e", "a", ":", "a">>, Description |-> Nil]

\* Lists of toplevels: one service; a group in front of or behind a
\* service; a group alone; and lists with a node of an unknown variant.
ServiceLists ==
  {<<v>> : v \in PrintServices}
    \cup {<<GroupOf(e), v>> :
            e \in Nested(1),
            v \in {x \in PrintServices :
                     x.User = <<UserNode>> /\ x.Attributes = <<>>}}
    \cup {<<v, GroupOf(e)>> :
            e \in Nested(1),
            v \in {x \in PrintServices :
                     x.User = <<UserNode>> /\ x.Attributes = <<>>}}
    \cup {<<GroupOf(e)>> : e \in Nested(MaxDepth) \cup {UnknownNode}}
    \cup {<<UnknownNode>>}

InitService ==
  \E l \in ServiceLists :
    /\ src = <<>>
    /\ pc = "parsed"
    /\ p = NewParser(<<>>)
    /\ list = l
    /\ out = <<>>
    /\ run = 1
    /\ src1 = <<>>
    /\ out1 = <<>>

SpecService == InitService /\ [][Next]_vars

\* ------------------------------------------------------------------------
\* Operators of the properties

\* The literals of the tokens of text from read offset off on.
RECURSIVE TokensFrom(_, _)
TokensFrom(text, off) ==
  LET t == Token(text, off)
  IN IF t.tok = <<>> THEN <<>> ELSE <<t.tok>> \o TokensFrom(text, t.off)

Tokens(text) == TokensFrom(text, 0)

\* The lines of text, without their "\n".
Lines(text) ==
  LET l == Split(text, "\n")
  IN IF l[Len(l)] = <<>> THEN SubSeq(l, 1, Len(l) - 1) ELSE l

\* Number of spaces at the start of line.
Indent(line) ==
  IF \E i \in 1..Len(line) : line[i] # " "
  THEN (CHOOSE i \in 1..Len(line) :
          line[i] # " " /\ \A j \in 1..(i-1) : line[j] = " ") - 1
  ELSE Len(line)

\* Offsets of the comments of text from offset off on.
RECURSIVE CommentStarts(_, _)
CommentStarts(text, off) ==
  IF off >= Len(text) THEN {}
  ELSE IF text[off + 1] = "#"
       THEN {off} \cup CommentStarts(text, EOL(text, off))
       ELSE CommentStarts(text, off + 1)

\* The comment of text that starts at offset k.
CommentAt(text, k) == Slice(text, k, EOL(text, k))

\* Number of occurrences of the comment c in text.
CountIn(text, c) ==
  Cardinality({k \in CommentStarts(text, 0) : CommentAt(text, k) = c})

AutoKinds == {"SimpleAuto", "AggAuto", "IntfAuto"}

\* The node n and all nodes below it.
RECURSIVE Nodes(_)
Nodes(n) ==
  {n} \cup
  CASE n.kind \in {"Group"} \cup AutoKinds ->
         UNION {Nodes(n.Elements[i]) : i \in 1..Len(n.Elements)}
    [] n.kind = "Intersection" ->
         UNION {Nodes(n.List[i]) : i \in 1..Len(n.List)}
    [] n.kind = "Complement" -> Nodes(n.Element)
    [] OTHER -> {}

ListNodes == UNION {Nodes(list[i]) : i \in 1..Len(list)}

\* Category of a member of a union: group 1, any and area 2, network 3,
\* interface 4, host 5, and 0 for `user`.
TypRank(typ) ==
  CASE typ = W.group -> 1
    [] typ = W.network -> 3
    [] typ = W.interface -> 4
    [] typ = W.host -> 5
    [] OTHER -> 2

RECURSIVE Rank(_)
Rank(n) ==
  CASE n.kind = "Intersection" -> Rank(n.List[1])
    [] n.kind = "Complement" -> Rank(n.Element)
    [] n.kind = "User" -> 0
    [] OTHER -> TypRank(n.Typ)

\* ------------------------------------------------------------------------
\* Properties

\* C1: the text printed for an accepted source text is accepted again, and
\* parsing and printing it prints the same text, byte for byte.
C1_Idempotent ==
  run = 2 => /\ pc # "failed"
             /\ pc = "printed" => out = out1

\* C2: at most one syntax error is raised in a run; once it is raised no
\* token is consumed and no node is built any more, the run ends as failed
\* (no list is returned) and nothing is printed.
C2_FailFast ==
  /\ Len(p.err) <= 1
  /\ p.dead <=> pc = "failed"
  /\ p.dead => /\ Len(p.err) = 1
               /\ p.ntok = p.attok
               /\ p.nnode = p.atnode
               /\ out = <<>>

\* A run that failed after it had read a first toplevel.
C2_Witness == pc = "failed" /\ list # <<>> /\ p.nnode > 0

\* The first token of the source text, split at its first ":".
TopTok == Token(src, 0).tok

TopTyp == Slice(TopTok, 0, Index(TopTok, ":"))

TopName == SliceFrom(TopTok, Index(TopTok, ":") + 1)

TopNameValid ==
  \/ TopTyp = W.router /\ isRouterName(TopName)
  \/ TopTyp = W.network /\ isNetworkName(TopName)
  \/ isSimpleName(TopName)

\* The first toplevel has been read or rejected.
TopAttempted == pc \in {"failed", "parsed", "printed"} \/ list # <<>>

\* C3: a first token typ:name whose name is not valid for typ is rejected
\* with "Invalid token", whatever typ is; with a valid name, every typ other
\* than group is rejected with "Unknown global definition".  In both cases
\* no toplevel is produced.
C3_TopDispatch ==
  (TopAttempted /\ Index(TopTok, ":") # -1) =>
    /\ ~TopNameValid => /\ pc = "failed"
                        /\ p.err = <<<<"Invalid token">>>>
                        /\ list = <<>>
    /\ (TopNameValid /\ TopTyp # W.group) =>
         /\ pc = "failed"
         /\ p.err = <<<<"Unknown global definition">>>>
         /\ list = <<>>

\* A group with an invalid name was rejected with "Invalid token".
C3_Witness ==
  /\ pc = "failed"
  /\ Index(TopTok, ":") # -1
  /\ TopTyp = W.group
  /\ ~TopNameValid
  /\ p.err = <<<<"Invalid token">>>>

\* A list of members is in category order.
Ordered(l) ==
  \A i \in 1..(Len(l) - 1) :
    (Rank(l[i]) # 0 /\ Rank(l[i + 1]) # 0) => Rank(l[i]) <= Rank(l[i + 1])

\* C4: in the printed text of an accepted source text (read back by the
\* second run) the members of every union are in the category order
\* group < any < network < interface < host, an intersection counting as
\* its first member.
C4_CategoryOrder ==
  (run = 2 /\ pc = "parsed") =>
    \A n \in ListNodes :
      n.kind \in {"Group"} \cup AutoKinds => Ordered(n.Elements)

\* The comment at offset k of the source text stands inside an automatic
\* group that is printed in short form.
InShortAuto(k) ==
  \E n \in ListNodes :
    /\ n.kind \in AutoKinds
    /\ isShort(n.Elements) # <<>>
    /\ n.Start < k
    /\ k < n.End

\* The comment at offset k stands inside the selector of an interface.
InSelector(k) ==
  \E n \in ListNodes :
    /\ n.kind = "IntfRef"
    /\ n.Network = <<"[">>
    /\ n.Start < k
    /\ k < n.End

\* The comment at offset k stands on a later line than the last member of a
\* list and in front of the end of the list.
AfterLast(k) ==
  \E n \in ListNodes :
    /\ n.kind \in {"Group"} \cup AutoKinds
    /\ n.Elements # <<>>
    /\ EOL(src, n.Elements[Len(n.Elements)].End) < k
    /\ k < n.End

Dropped(k) == InShortAuto(k) \/ InSelector(k) \/ AfterLast(k)

\* C5 as stated: every comment of an accepted source text is printed
\* exactly once.
C5_CommentsConserved ==
  pc = "printed" =>
    /\ \A k \in CommentStarts(src, 0) :
         CountIn(out, CommentAt(src, k)) = CountIn(src, CommentAt(src, k))
    /\ \A k \in CommentStarts(out, 0) : CountIn(src, CommentAt(out, k)) > 0

\* C5, amended: no comment is printed more often than it stands in the
\* source text and no other comment is printed; a comment inside a
\* short-form automatic group, inside a selector, or behind the line of the
\* last member of a list is not printed, and no comment is printed for a
\* source text without toplevels.
C5_CommentsNotDuplicated ==
  pc = "printed" =>
    /\ list = <<>> => CommentStarts(out, 0) = {}
    /\ \A k \in CommentStarts(out, 0) :
         /\ CountIn(src, CommentAt(out, k)) > 0
         /\ CountIn(out, CommentAt(out, k)) <= CountIn(src, CommentAt(out, k))
    /\ \A k \in CommentStarts(src, 0) :
         (Dropped(k) /\ CountIn(src, CommentAt(src, k)) = 1) =>
           CountIn(out, CommentAt(src, k)) = 0

\* A text was printed whose source has a comment inside a short-form
\* automatic group and a comment that was printed.
C5_Witness ==
  /\ pc = "printed"
  /\ run = 1
  /\ \E k \in CommentStarts(src, 0) : InShortAuto(k)
  /\ \E k \in CommentStarts(src, 0) : CountIn(out, CommentAt(src, k)) = 1

\* C6: when the list of toplevels is empty, nothing is printed.
C6_EmptyList == (pc = "printed" /\ list = <<>>) => out = <<>>

\* A source text of comments only was printed.
C6_Witness ==
  /\ pc = "printed"
  /\ list = <<>>
  /\ CommentStarts(src, 0) # {}

\* The tokens of the source text are group:NAME = ;
EmptyGroupSource ==
  LET t == Tokens(src)
  IN /\ Len(t) = 3
     /\ HasPrefix(t[1], W.group \o <<":">>)
     /\ isSimpleName(SliceFrom(t[1], Len(W.group) + 1))
     /\ t[2] = <<"=">>
     /\ t[3] = <<";">>

\* C7: group:NAME = ; is accepted as one Group without elements, for which
\* no other node is built, and without comments it is printed as the lines
\* "group:NAME =" and ";".
C7_EmptyGroup ==
  EmptyGroupSource =>
    /\ pc # "failed"
    /\ pc \in {"parsed", "printed"} =>
         /\ Len(list) = 1
         /\ list[1].kind = "Group"
         /\ list[1].Name = Tokens(src)[1]
         /\ list[1].Elements = <<>>
         /\ p.nnode = 1
    /\ (pc = "printed" /\ CommentStarts(src, 0) = {}) =>
         out = (Tokens(src)[1] \o <<" ", "=", "\n">>) \o <<";", "\n">>

\* An empty group without comments was printed.
C7_Witness ==
  /\ pc = "printed"
  /\ run = 1
  /\ EmptyGroupSource
  /\ CommentStarts(src, 0) = {}

\* The automatic group of a list of PrintGroups.
TheAuto == list[1].Elements[1]

\* Text of the automatic group a in front of and behind its nested list.
AutoOpen(a) ==
  (a.Typ \o <<":", "[">>)
    \o (IF a.kind = "IntfAuto" /\ a.Managed
        THEN W.managed \o <<" ", "&", " ">> ELSE <<>>)

AutoClose(a) ==
  IF a.kind = "IntfAuto" THEN <<"]", ".", "[">> \o (a.Selector \o <<"]">>)
  ELSE <<"]">>

MemberText(n) ==
  IF n.kind = "User" THEN W.user ELSE (n.Typ \o <<":">>) \o n.Name

\* A group that holds one automatic group without IP prefix was printed in
\* the first run.
AutoPrinted ==
  /\ pc = "printed"
  /\ run = 1
  /\ Len(list) = 1
  /\ list[1].kind = "Group"
  /\ list[1].Description = Nil
  /\ Len(list[1].Elements) = 1
  /\ TheAuto.kind \in AutoKinds
  /\ TheAuto.kind = "AggAuto" => TheAuto.Net = Nil

\* C8: the nested list of an automatic group is printed on the opening line
\* exactly if it has one member and that is a NamedRef or User.  Every other
\* list is printed with the opening line on its own, each member followed
\* by "," at the indentation of the members, and the closing bracket on a
\* line of its own.
C8_ShortForm ==
  (AutoPrinted /\ CommentStarts(src, 0) = {}) =>
    LET a     == TheAuto
        l     == a.Elements
        lines == Lines(out)
        n     == Len(lines)
        short == Len(l) = 1 /\ l[1].kind \in {"NamedRef", "User"}
    IN /\ n >= 3
       /\ short <=> n = 3
       /\ short =>
            lines[2] = <<" ">> \o AutoOpen(a) \o MemberText(l[1])
                         \o AutoClose(a) \o <<",">>
       /\ ~short =>
            /\ n >= 4
            /\ lines[2] = <<" ">> \o AutoOpen(a)
            /\ lines[n - 1] = <<" ">> \o AutoClose(a) \o <<",">>
            /\ \A i \in 3..(n - 2) : Indent(lines[i]) >= 2
            /\ (n > 4) => Indent(lines[3]) = 2
            /\ Cardinality({i \in 3..(n - 2) :
                              /\ Indent(lines[i]) = 2
                              /\ lines[i][Len(lines[i])] = ","}) = Len(l)

\* An automatic group whose only member is an interface was printed.
C8_Witness ==
  /\ AutoPrinted
  /\ src = <<>>
  /\ Len(TheAuto.Elements) = 1
  /\ TheAuto.Elements[1].kind = "IntfRef"

\* The name X of the source text "group:g = interface:X;" and its parts.
IntfX == Slice(src1, Len(GroupG) + Len(W.interface) + 4, Len(src1) - 2)

IntfRouter == Slice(IntfX, 0, Index(IntfX, "."))

IntfRest == SliceFrom(IntfX, Index(IntfX, ".") + 1)

IntfNet ==
  IF Index(IntfRest, ".") = -1 THEN IntfRest
  ELSE Slice(IntfRest, 0, Index(IntfRest, "."))

IntfExt == SliceFrom(IntfRest, Index(IntfRest, ".") + 1)

\* X has no ".", or its router part is no router name, or its network part
\* is empty or no network name, or it has more than one extension.
IntfNameBad ==
  \/ Index(IntfX, ".") = -1
  \/ ~isRouterName(IntfRouter)
  \/ IntfNet = <<>>
  \/ ~isNetworkName(IntfNet)
  \/ Index(IntfRest, ".") # -1 /\ Index(IntfExt, ".") # -1

\* X has one extension that is no simple name.
IntfExtBad == Index(IntfRest, ".") # -1 /\ ~isSimpleName(IntfExt)

\* The first run on "group:g = interface:X;" has read or rejected X.
IntfAttempted ==
  /\ run = 1
  /\ pc \in {"failed", "parsed", "printed"}
  /\ src1 = Join(<<GroupG, <<"=">>, Typed(W.interface, IntfX) \o <<";">>>>,
                 <<" ">>) \o <<"\n">>

\* C9 as stated: interface:X is rejected with "Interface name expected" if
\* X has no ".", a bad router part, an empty or bad network part or more
\* than one extension, and is accepted otherwise.
C9_IntfNames ==
  IntfAttempted =>
    IF IntfNameBad
    THEN pc = "failed" /\ p.err = <<<<"Interface name expected">>>>
    ELSE pc # "failed"

\* C9, amended: interface:X is also rejected with "Interface name expected"
\* if its single extension is empty or no simple name; every other name is
\* accepted.
C9_IntfNamesExt ==
  IntfAttempted =>
    IF IntfNameBad \/ IntfExtBad
    THEN pc = "failed" /\ p.err = <<<<"Interface name expected">>>>
    ELSE pc # "failed"

\* A name whose only defect is its single extension was rejected.
C9_Witness ==
  /\ IntfAttempted
  /\ pc = "failed"
  /\ ~IntfNameBad
  /\ IntfExtBad

\* Tokens of references read by objectRef.
RefTokens == {HostA, HostB, NetN, Typed(W.group, <<"b">>)}

\* The tokens between "group:g =" and the last token of the source text.
UnionBody == SubSeq(Tokens(src), 3, Len(Tokens(src)) - 1)

\* The tokens of the source text are group:g = e1 , ... , en ; with or
\* without a comma behind en.
UnionSource ==
  LET t == Tokens(src)
  IN /\ Len(t) >= 4
     /\ t[1] = GroupG
     /\ t[2] = <<"=">>
     /\ t[Len(t)] = <<";">>
     /\ \A i \in 1..Len(UnionBody) :
          IF i % 2 = 1 THEN UnionBody[i] \in RefTokens
          ELSE UnionBody[i] = <<",">>

\* C10: a union e1, ..., en with or without one comma in front of the
\* terminator is read as the n elements in the order of the source text,
\* and the terminator is consumed.
C10_TrailingComma ==
  UnionSource =>
    /\ pc # "failed"
    /\ pc \in {"parsed", "printed"} =>
         LET l == list[1].Elements
         IN /\ Len(list) = 1
            /\ Len(l) = (Len(UnionBody) + 1) \div 2
            /\ \A i \in 1..Len(l) :
                 /\ l[i].kind = "NamedRef"
                 /\ (l[i].Typ \o <<":">>) \o l[i].Name = UnionBody[2 * i - 1]
            /\ src[list[1].End] = ";"
            /\ p.tok = <<>>

\* Two elements with a comma behind the second were read.
C10_Witness ==
  /\ pc = "parsed"
  /\ run = 1
  /\ UnionSource
  /\ Len(UnionBody) = 4

\* C11..C18

\* C13: in a list returned by ParseFile every Intersection has at least two
\* members and its first member is no Complement, and no Complement is a
\* member of a union.
C13_IntersectionShape ==
  pc = "parsed" =>
    \A n \in ListNodes :
      /\ n.kind = "Intersection" =>
           Len(n.List) >= 2 /\ n.List[1].kind # "Complement"
      /\ n.kind \in {"Group"} \cup AutoKinds =>
           \A i \in 1..Len(n.Elements) : n.Elements[i].kind # "Complement"

\* The tokens of the source text are
\* group:g = interface:r.[ auto|all ] ... where a "," or ";" follows.
SelectorSource ==
  LET t == Tokens(src)
  IN /\ Len(t) >= 6
     /\ t[1] = GroupG
     /\ t[2] = <<"=">>
     /\ t[3] = Typed(W.interface, <<"r", ".", "[">>)
     /\ t[4] \in {W.auto, W.all}
     /\ t[5] = <<"]">>
     /\ t[6] \in {<<",">>, <<";">>}

\* The first line of the members of the printed text.
MemberLine == Lines(out)[2]

UserSource == Tokens(src) = <<GroupG, <<"=">>, W.user, <<";">>>>

\* C17: reading `user` consumes that token only: group:g = user ; is
\* accepted, its only member is a User that starts at the `user` token,
\* and the group ends behind the ";".
C17_UserToken ==
  UserSource =>
    /\ pc # "failed"
    /\ pc \in {"parsed", "printed"} =>
         /\ Len(list) = 1
         /\ Len(list[1].Elements) = 1
         /\ list[1].Elements[1].kind = "User"
         /\ Token(src, list[1].Elements[1].Start).tok = W.user
         /\ src[list[1].End] = ";"

\* The lists of elements of the service v: its user list and the src and
\* dst lists of its rules.
ServiceElementLists(v) ==
  {v.User} \cup {v.Rules[i].Src : i \in 1..Len(v.Rules)}
           \cup {v.Rules[i].Dst : i \in 1..Len(v.Rules)}

\* The element nodes of the toplevel t.
ElementsOf(t) ==
  IF t.kind = "Group" THEN Nodes(t) \ {t}
  ELSE IF t.kind = "Service"
  THEN UNION {UNION {Nodes(l[i]) : i \in 1..Len(l)} :
                l \in ServiceElementLists(t)}
  ELSE {}

ElementKinds ==
  {"NamedRef", "IntfRef", "User", "Intersection", "Complement"}
    \cup AutoKinds

\* All nodes of list are of variants the printer knows.
Recognized ==
  \A i \in 1..Len(list) :
    /\ list[i].kind \in {"Group", "Service"}
    /\ \A n \in ElementsOf(list[i]) : n.kind \in ElementKinds

\* One service was printed in the first run.
ServicePrinted ==
  /\ pc = "printed"
  /\ run = 1
  /\ Len(list) = 1
  /\ list[1].kind = "Service"
  /\ out # <<>>

\* Number of the first line of the printed text that starts with pre, 0 if
\* there is none.
LineWith(pre) ==
  LET lines == Lines(out)
      S == {i \in 1..Len(lines) : HasPrefix(lines[i], pre)}
  IN IF S = {} THEN 0 ELSE CHOOSE i \in S : \A j \in S : i <= j

UserLine == LineWith(<<" ">> \o (W.user \o <<" ", "=">>))

\* Number of the first line behind line k that is equal to line.
LineBehind(k, line) ==
  LET lines == Lines(out)
      S == {i \in (k + 1)..Len(lines) : lines[i] = line}
  IN IF S = {} THEN 0 ELSE CHOOSE i \in S : \A j \in S : i <= j

\* C11: a service with foreach prints its user list as the line
\* "user = foreach", then every member followed by "," at the indentation
\* of the members, then ";" on a line of its own; a single NamedRef or User
\* is printed on a line of its own, too.
C11_Foreach ==
  (ServicePrinted /\ list[1].Foreach) =>
    LET lines == Lines(out)
        u     == list[1].User
        k     == UserLine
        e     == LineBehind(k, <<" ", ";">>)
    IN /\ k > 0
       /\ lines[k] = <<" ">> \o ((W.user \o <<" ", "=", " ">>) \o W.foreach)
       /\ e > k
       /\ \A i \in (k + 1)..(e - 1) : Indent(lines[i]) >= 2
       /\ Len(u) >= 1 => Indent(lines[k + 1]) = 2
       /\ Cardinality({i \in (k + 1)..(e - 1) :
                         /\ Indent(lines[i]) = 2
                         /\ lines[i][Len(lines[i])] = ","}) = Len(u)
       /\ (Len(u) = 1 /\ u[1].kind \in {"NamedRef", "User"}) =>
            /\ e = k + 2
            /\ lines[k + 1] = (<<" ", " ">> \o MemberText(u[1])) \o <<",">>

\* A service with foreach whose user list is one NamedRef was printed.
C11_Witness ==
  /\ ServicePrinted
  /\ list[1].Foreach
  /\ Len(list[1].User) = 1
  /\ list[1].User[1].kind = "NamedRef"

\* C12: printing a list whose nodes are all of known variants does not
\* fail, and printing a list with a node of an unknown variant fails.
C12_NoPanic ==
  (pc = "printed" /\ run = 1 /\ list # <<>>) =>
    (out # <<>> <=> Recognized)

\* Member m of an intersection is a NamedRef or User, or the complement of
\* one.
SimpleMember(m) ==
  \/ m.kind \in {"NamedRef", "User"}
  \/ m.kind = "Complement" /\ m.Element.kind \in {"NamedRef", "User"}

\* The line of the later member m of an intersection, without indentation.
LaterMemberText(m) ==
  IF m.kind = "Complement"
  THEN <<"&", "!", " ">> \o MemberText(m.Element)
  ELSE <<"&", " ">> \o MemberText(m)

\* A service was printed whose user list is one intersection of NamedRefs,
\* Users and complements of them that starts with no complement.
IntersectionPrinted ==
  /\ ServicePrinted
  /\ Len(list[1].User) = 1
  /\ list[1].User[1].kind = "Intersection"
  /\ Len(list[1].User[1].List) >= 2
  /\ list[1].User[1].List[1].kind \in {"NamedRef", "User"}
  /\ \A i \in 1..Len(list[1].User[1].List) :
       SimpleMember(list[1].User[1].List[i])

\* C15: an intersection in the user list of a service is printed with its
\* first member behind pre ("user = ", or "" with foreach), every later
\* member on a line of its own behind "& " or "&! ", indented by the width
\* of pre, then the terminator alone on a line at that indentation; the
\* next line is at the indentation of the service again.
C15_Intersection ==
  IntersectionPrinted =>
    LET lines == Lines(out)
        v     == list[1]
        l     == v.User[1].List
        pre   == IF v.Foreach THEN <<>> ELSE W.user \o <<" ", "=", " ">>
        post  == IF v.Foreach THEN <<",">> ELSE <<";">>
        ind   == IF v.Foreach THEN 2 ELSE 1
        f     == IF v.Foreach THEN UserLine + 1 ELSE UserLine
        n     == Len(l)
    IN /\ UserLine > 0
       /\ Len(lines) > f + n
       /\ lines[f] = (Spaces(ind) \o pre) \o MemberText(l[1])
       /\ \A i \in 2..n :
            lines[f + i - 1] = Spaces(ind + Len(pre)) \o LaterMemberText(l[i])
       /\ lines[f + n] = Spaces(ind + Len(pre)) \o post
       /\ Indent(lines[f + n + 1]) = (IF v.Foreach \/ v.Rules # <<>> THEN 1
                                      ELSE 0)

\* An intersection of three members was printed behind "user = ".
C15_Witness ==
  /\ IntersectionPrinted
  /\ ~list[1].Foreach
  /\ Len(list[1].User[1].List) = 3
  /\ list[1].Rules # <<>>

\* A service was printed that has a line "user =": with foreach, or with a
\* user list that starts with no complement.
UserLinePrinted ==
  /\ ServicePrinted
  /\ list[1].Foreach \/ list[1].User[1].kind # "Complement"

ServiceHeader == ServiceS \o <<" ", "=", " ", "{">>

\* C16 as stated: the line behind the header "service:s = {" is the only
\* empty line there, the line in front of the "user =" line is the only
\* empty line there, and the last line is "}".
C16_ServiceSpacing ==
  UserLinePrinted =>
    LET lines == Lines(out)
        k     == UserLine
    IN /\ k >= 3
       /\ lines[1] = ServiceHeader
       /\ lines[2] = <<>>
       /\ lines[3] # <<>>
       /\ lines[k - 1] = <<>>
       /\ lines[k - 2] # <<>>
       /\ lines[Len(lines)] = <<"}">>

\* C16, amended: the empty line stands behind the description line if the
\* service has a description and behind the header otherwise; the line in
\* front of the "user =" line is empty; both are the same line exactly if
\* the service has no attributes; no two empty lines follow each other and
\* the last line is "}".
C16_ServiceSpacingDescription ==
  UserLinePrinted =>
    LET lines == Lines(out)
        k     == UserLine
        h     == IF list[1].Description # Nil THEN 2 ELSE 1
    IN /\ k >= h + 2
       /\ lines[1] = ServiceHeader
       /\ h = 2 => lines[2] = <<" ">> \o ((W.description \o <<" ", "=">>)
                                            \o list[1].Description.Text)
       /\ lines[h + 1] = <<>>
       /\ lines[h + 2] # <<>>
       /\ lines[k - 1] = <<>>
       /\ lines[k - 2] # <<>>
       /\ (k = h + 2) <=> (list[1].Attributes = <<>>)
       /\ \A i \in 1..(Len(lines) - 1) :
            ~(lines[i] = <<>> /\ lines[i + 1] = <<>>)
       /\ lines[Len(lines)] = <<"}">>

\* A service with a description and attributes was printed.
C16_Witness ==
  /\ UserLinePrinted
  /\ list[1].Description # Nil
  /\ list[1].Attributes # <<>>

\* Indentations at which the operations of the printer are entered.
Indents == {0, 1, 8}

\* A printer at indentation i.
PrinterAt(i) == [NewPrinter EXCEPT !.indent = i, !.low = i]

\* The printer q was entered at indentation i, has returned with it and
\* has printed no line at a negative indentation.
Balanced(q, i) == q.indent = i /\ q.low >= 0

\* C18: when printer.File does not fail, the indentation is 0 in front of
\* and behind every toplevel, no line is printed at a negative
\* indentation, and element, intersection, elementList, subElements,
\* namedList, rule, service and toplevel return with the indentation they
\* were entered with, for every node of the list.
C18_IndentBalanced ==
  (pc = "printed" /\ run = 1 /\ out # <<>>) =>
    /\ \A i \in 0..Len(list) :
         Balanced(FileLoop(NewPrinter, init(src), SubSeq(list, 1, i), 1), 0)
    /\ \A k \in 1..Len(list), i \in Indents :
         LET t == list[k]
         IN /\ Balanced(pr_toplevel(PrinterAt(i), src, t), i)
            /\ \A n \in ElementsOf(t), pre \in {<<>>, <<"u", " ", "=", " ">>} :
                 /\ Balanced(element(PrinterAt(i), src, pre, n, <<",">>), i)
                 /\ n.kind = "Intersection" =>
                      Balanced(pr_intersection(PrinterAt(i), src, pre, n.List,
                                               <<";">>), i)
                 /\ n.kind \in AutoKinds =>
                      /\ Balanced(subElements(PrinterAt(i), src, pre,
                                              <<"[">>, n.Elements, <<"]">>), i)
                      /\ Balanced(elementList(PrinterAt(i), src, n.Elements,
                                              <<"]">>), i)
            /\ t.kind = "Group" =>
                 Balanced(elementList(PrinterAt(i), src, t.Elements, <<";">>), i)
            /\ t.kind = "Service" =>
                 /\ Balanced(service(PrinterAt(i), src, t), i)
                 /\ \A l \in ServiceElementLists(t) :
                      Balanced(namedList(PrinterAt(i), src, W.user, l,
                                         "element"), i)
                 /\ \A j \in 1..Len(t.Rules) :
                      Balanced(rule(PrinterAt(i), src, t.Rules[j]), i)

\* A service was printed whose user list nests automatic groups or
\* intersections MaxDepth deep and that has rules.
C18_Witness ==
  /\ ServicePrinted
  /\ list[1].Rules # <<>>
  /\ list[1].User \in {<<e>> : e \in Nested(MaxDepth) \ Nested(MaxDepth - 1)}

====
